---- MODULE Spec2Model ----
(***************************************************************************)
(* The email pipeline of src/send.ts (src/send-followup.ts and the third   *)
(* script carry the same fetchAllEmails / sendBatches / main, with another *)
(* template): main fetches every user page of the directory, extracts the  *)
(* emails, sends them in batches and prints the totals.                    *)
(*                                                                         *)
(* One action per continuation of the async code: a step runs from one     *)
(* await (or loop head) to the next.  The two external services answer     *)
(* nondeterministically.  requests, responses, batches, outcomes,          *)
(* sendCalls, inflight, timers and result record what the run did (the     *)
(* calls it made, the values of its locals, what sendBatches returned),    *)
(* they never steer it.                                                    *)
(***************************************************************************)
EXTENDS Integers, Sequences, FiniteSets

VARIABLES pc, DRY_RUN, page, emails, requests, responses,
          total, i, sent, failed, batches, outcomes,
          sendCalls, inflight, timers, result, stdout, stderr, exitCode

vars == << pc, DRY_RUN, page, emails, requests, responses,
           total, i, sent, failed, batches, outcomes,
           sendCalls, inflight, timers, result, stdout, stderr, exitCode >>

\* ---------------------------------------------------------------- sizes
\* send.ts:10 sets BATCH_SIZE = 100 and send.ts:45 perPage = 1000; the model
\* runs the same code with small values of both (a page still holds more
\* than a batch).
BATCH_SIZE == 2
perPage == 3
\* The directory serves at most MaxUsers user records over all its pages.
MaxUsers == 6
DELAY_BETWEEN_BATCHES_MS == 1000

\* ---------------------------------------------------------------- data
\* A user record is seen through its email field alone: absent (undefined),
\* the empty string, or an address.
NoEmail == "undefined"
Addresses == {"a@x", "b@x"}
EmailFields == Addresses \cup {NoEmail, ""}

SeqsUpTo(S, n) == UNION { [1..k -> S] : k \in 0..n }
UserPages == SeqsUpTo(EmailFields, perPage)

Min(a, b) == IF a < b THEN a ELSE b

\* Array.prototype.slice(start, end) for 0 <= start <= end, 0-based, end exclusive
\* and clamped to the length.
Slice(s, start, end) == SubSeq(s, start + 1, Min(end, Len(s)))

\* Math.ceil(a / b) for a >= 0, b > 0.
Ceil(a, b) == (a + b - 1) \div b

\* One console line: what it says and the numbers it carries.
Line(text, a, b) == [text |-> text, a |-> a, b |-> b]

FROM_EMAIL == "FROM_EMAIL"

buildEmail(to) == [from |-> FROM_EMAIL, to |-> to, subject |-> "hi from jia :3"]

\* Variant of Truthy: only undefined is skipped.
Truthy_defined(email) == email # NoEmail

\* if (user.email): undefined and "" are falsy.
Truthy(email) == email # NoEmail /\ email # ""

\* for (const user of users) if (user.email) emails.push(user.email)
RECURSIVE pushEmails(_, _)
pushEmails(acc, users) ==
  IF users = << >> THEN acc
  ELSE pushEmails(IF Truthy(Head(users)) THEN Append(acc, Head(users)) ELSE acc,
                  Tail(users))

\* if (!users || users.length === 0) break
noUsers(present, users) == ~present \/ Len(users) = 0

\* Variant of lastPage: the emails of the page are counted, not its users.
lastPage_byEmails(users) == Len(pushEmails(<< >>, users)) < perPage

\* if (users.length < perPage) break
lastPage(users) == Len(users) < perPage

\* The user records the directory has served so far.
RECURSIVE Served(_)
Served(rs) ==
  IF rs = << >> THEN 0 ELSE Len(Head(rs).users) + Served(Tail(rs))

\* ---------------------------------------------------------------- Init
Init ==
  /\ pc = "main"
  /\ DRY_RUN \in BOOLEAN
  /\ page = 0
  /\ emails = << >>
  /\ requests = << >>
  /\ responses = << >>
  /\ total = 0
  /\ i = 0
  /\ sent = 0
  /\ failed = 0
  /\ batches = << >>
  /\ outcomes = << >>
  /\ sendCalls = << >>
  /\ inflight = 0
  /\ timers = << >>
  /\ result = << >>
  /\ stdout = << >>
  /\ stderr = << >>
  /\ exitCode = "running"

\* ---------------------------------------------------------------- main, fetch
\* main() up to fetchAllEmails' loop head.
main_begin ==
  /\ pc = "main"
  /\ stdout' = stdout \o
       << Line(IF DRY_RUN THEN "=== DRY RUN MODE ===" ELSE "=== SENDING EMAILS ===", 0, 0),
          Line("1. Fetching emails from Supabase...", 0, 0) >>
  /\ emails' = << >>
  /\ page' = 1
  /\ pc' = "fetchLoop"
  /\ UNCHANGED << result, DRY_RUN, requests, responses, total, i, sent, failed, batches,
                  outcomes, sendCalls, inflight, timers, stderr, exitCode >>

\* supabase.auth.admin.listUsers({ page, perPage }) is called and awaited.
listUsers_call ==
  /\ pc = "fetchLoop"
  /\ requests' = Append(requests, page)
  /\ pc' = "awaitListUsers"
  /\ UNCHANGED << result, DRY_RUN, page, emails, responses, total, i, sent, failed, batches,
                  outcomes, sendCalls, inflight, timers, stdout, stderr, exitCode >>

\* main().catch: console.error("Fatal error:", err); process.exit(1)
fatal(text, n) ==
  /\ stderr' = Append(stderr, Line(text, n, 0))
  /\ exitCode' = "1"
  /\ pc' = "exited"

\* Variant of listUsers_error: the error ends the loop like an empty page and
\* the emails fetched so far are returned.
listUsers_error_swallowed ==
  /\ pc = "awaitListUsers"
  /\ responses' = Append(responses, [kind |-> "error", users |-> << >>])
  /\ pc' = "fetched"
  /\ UNCHANGED << result, DRY_RUN, page, emails, requests, total, i, sent, failed, batches,
                  outcomes, sendCalls, inflight, timers, stdout, stderr, exitCode >>

\* The call reports an error: fetchAllEmails throws, naming the page, main
\* rejects and the catch handler exits.
listUsers_error ==
  /\ pc = "awaitListUsers"
  /\ responses' = Append(responses, [kind |-> "error", users |-> << >>])
  /\ fatal("Fatal error: Supabase auth fetch failed at page", page)
  /\ UNCHANGED << result, DRY_RUN, page, emails, requests, total, i, sent, failed, batches,
                  outcomes, sendCalls, inflight, timers, stdout >>

\* The call itself rejects: nothing catches it before main's catch handler.
listUsers_fault ==
  /\ pc = "awaitListUsers"
  /\ responses' = Append(responses, [kind |-> "fault", users |-> << >>])
  /\ fatal("Fatal error: (fault)", 0)
  /\ UNCHANGED << result, DRY_RUN, page, emails, requests, total, i, sent, failed, batches,
                  outcomes, sendCalls, inflight, timers, stdout >>

\* The call returns a page of users (present = FALSE: no users array at all).
listUsers_ok(present, users) ==
  /\ pc = "awaitListUsers"
  /\ Served(responses) + Len(users) <= MaxUsers
  /\ responses' = Append(responses, [kind |-> "ok", users |-> users])
  /\ IF noUsers(present, users)
       THEN /\ pc' = "fetched"
            /\ UNCHANGED << emails, stdout, page >>
       ELSE /\ emails' = pushEmails(emails, users)
            /\ stdout' = Append(stdout, Line("Fetched emails so far", Len(emails'), 0))
            /\ page' = page + 1
            /\ pc' = IF lastPage(users) THEN "fetched" ELSE "fetchLoop"
  /\ UNCHANGED << result, DRY_RUN, requests, total, i, sent, failed, batches,
                  outcomes, sendCalls, inflight, timers, stderr, exitCode >>

\* Variant of main_fetched: the early return on an empty list is missing.
main_fetched_noEarlyReturn ==
  /\ pc = "fetched"
  /\ stdout' = stdout \o << Line("Found emails", Len(emails), 0),
                            Line("2. Sending in batches of", BATCH_SIZE, 0) >>
  /\ total' = Len(emails)
  /\ sent' = 0
  /\ failed' = 0
  /\ i' = 0
  /\ pc' = "sendLoop"
  /\ UNCHANGED << result, DRY_RUN, page, emails, requests, responses, batches,
                  outcomes, sendCalls, inflight, timers, stderr, exitCode >>

\* fetchAllEmails has returned: main up to sendBatches' loop head, or to its
\* early return on an empty list.
main_fetched ==
  /\ pc = "fetched"
  /\ IF Len(emails) = 0
       THEN /\ stdout' = stdout \o << Line("Found emails", Len(emails), 0),
                                      Line("No emails found.", 0, 0) >>
            /\ exitCode' = "0"
            /\ pc' = "exited"
            /\ UNCHANGED << total, i, sent, failed >>
       ELSE /\ stdout' = stdout \o << Line("Found emails", Len(emails), 0),
                                      Line("2. Sending in batches of", BATCH_SIZE, 0) >>
            /\ total' = Len(emails)
            /\ sent' = 0
            /\ failed' = 0
            /\ i' = 0
            /\ pc' = "sendLoop"
            /\ UNCHANGED exitCode
  /\ UNCHANGED << result, DRY_RUN, page, emails, requests, responses, batches,
                  outcomes, sendCalls, inflight, timers, stderr >>

\* ---------------------------------------------------------------- sendBatches
\* Variant of batchOf: the slice starts one element late.
batchOf_late(k) == Slice(emails, k + 1, k + BATCH_SIZE)

batchOf(k) == Slice(emails, k, k + BATCH_SIZE)
batchNum(k) == (k \div BATCH_SIZE) + 1
totalBatches == Ceil(total, BATCH_SIZE)

\* Variant of pauseFollows: the pause also follows the last batch.
pauseFollows_always(k) == k < total

\* if (i + BATCH_SIZE < total): a pause follows the batch at i.
pauseFollows(k) == k + BATCH_SIZE < total

\* Variant of sendBatches_dryRun: the continue is missing and the iteration
\* falls through to the send call.
sendBatches_dryRun_fallthrough ==
  /\ pc = "sendLoop"
  /\ i < total
  /\ DRY_RUN
  /\ batches' = Append(batches, batchOf(i))
  /\ stdout' = Append(stdout, Line("[DRY RUN] Batch: would send to", batchNum(i), Len(batchOf(i))))
  /\ sent' = sent + Len(batchOf(i))
  /\ sendCalls' = Append(sendCalls, [k \in 1..Len(batchOf(i)) |-> buildEmail(batchOf(i)[k])])
  /\ inflight' = inflight + 1
  /\ pc' = "awaitSend"
  /\ UNCHANGED << result, DRY_RUN, page, emails, requests, responses, total, i, failed,
                  outcomes, timers, stderr, exitCode >>

\* One iteration in dry-run mode: log, count, continue.
sendBatches_dryRun ==
  /\ pc = "sendLoop"
  /\ i < total
  /\ DRY_RUN
  /\ batches' = Append(batches, batchOf(i))
  /\ outcomes' = Append(outcomes, "simulated")
  /\ stdout' = Append(stdout, Line("[DRY RUN] Batch: would send to", batchNum(i), Len(batchOf(i))))
  /\ sent' = sent + Len(batchOf(i))
  /\ i' = i + BATCH_SIZE
  /\ UNCHANGED << result, pc, DRY_RUN, page, emails, requests, responses, total, failed,
                  sendCalls, inflight, timers, stderr, exitCode >>

\* Variant of sendBatches_send: the send call is not awaited and the loop
\* goes on to the next batch.
sendBatches_send_unawaited ==
  /\ pc = "sendLoop"
  /\ i < total
  /\ ~DRY_RUN
  /\ batches' = Append(batches, batchOf(i))
  /\ sendCalls' = Append(sendCalls, [k \in 1..Len(batchOf(i)) |-> buildEmail(batchOf(i)[k])])
  /\ inflight' = inflight + 1
  /\ i' = i + BATCH_SIZE
  /\ UNCHANGED << result, pc, DRY_RUN, page, emails, requests, responses, total, sent,
                  failed, outcomes, timers, stdout, stderr, exitCode >>

\* One iteration in live mode, up to the await of resend.batch.send.
sendBatches_send ==
  /\ pc = "sendLoop"
  /\ i < total
  /\ ~DRY_RUN
  /\ batches' = Append(batches, batchOf(i))
  /\ sendCalls' = Append(sendCalls, [k \in 1..Len(batchOf(i)) |-> buildEmail(batchOf(i)[k])])
  /\ inflight' = inflight + 1
  /\ pc' = "awaitSend"
  /\ UNCHANGED << result, DRY_RUN, page, emails, requests, responses, total, i, sent, failed,
                  outcomes, timers, stdout, stderr, exitCode >>

\* After the try/catch: the rate limit pause, or straight on to i += BATCH_SIZE.
afterBatch ==
  IF pauseFollows(i)
    THEN /\ timers' = Append(timers, DELAY_BETWEEN_BATCHES_MS)
         /\ pc' = "pause"
         /\ UNCHANGED i
    ELSE /\ i' = i + BATCH_SIZE
         /\ pc' = "sendLoop"
         /\ UNCHANGED timers

\* The send call resolves with no error.
send_accepted ==
  /\ pc = "awaitSend"
  /\ inflight' = inflight - 1
  /\ outcomes' = Append(outcomes, "accepted")
  /\ sent' = sent + Len(batchOf(i))
  /\ stdout' = Append(stdout, Line("Batch sent, done", batchNum(i), sent'))
  /\ afterBatch
  /\ UNCHANGED << result, DRY_RUN, page, emails, requests, responses, total, failed, batches,
                  sendCalls, stderr, exitCode >>

\* Variant of send_error: the error is logged and the batch is not counted.
send_error_uncounted ==
  /\ pc = "awaitSend"
  /\ inflight' = inflight - 1
  /\ outcomes' = Append(outcomes, "error")
  /\ stderr' = Append(stderr, Line("Batch FAILED", batchNum(i), 0))
  /\ afterBatch
  /\ UNCHANGED << result, DRY_RUN, page, emails, requests, responses, total, sent, failed,
                  batches, sendCalls, stdout, exitCode >>

\* The send call resolves with { error }.
send_error ==
  /\ pc = "awaitSend"
  /\ inflight' = inflight - 1
  /\ outcomes' = Append(outcomes, "error")
  /\ stderr' = Append(stderr, Line("Batch FAILED", batchNum(i), 0))
  /\ failed' = failed + Len(batchOf(i))
  /\ afterBatch
  /\ UNCHANGED << result, DRY_RUN, page, emails, requests, responses, total, sent, batches,
                  sendCalls, stdout, exitCode >>

\* Variant of send_fault: no try/catch, the fault reaches main's catch handler.
send_fault_uncaught ==
  /\ pc = "awaitSend"
  /\ inflight' = inflight - 1
  /\ outcomes' = Append(outcomes, "fault")
  /\ fatal("Fatal error: (fault)", 0)
  /\ UNCHANGED << result, DRY_RUN, page, emails, requests, responses, total, i, sent,
                  failed, batches, sendCalls, timers, stdout >>

\* The send call throws an Error: the catch block.
send_fault ==
  /\ pc = "awaitSend"
  /\ inflight' = inflight - 1
  /\ outcomes' = Append(outcomes, "fault")
  /\ stderr' = Append(stderr, Line("Batch ERROR", batchNum(i), 0))
  /\ failed' = failed + Len(batchOf(i))
  /\ afterBatch
  /\ UNCHANGED << result, DRY_RUN, page, emails, requests, responses, total, sent, batches,
                  sendCalls, stdout, exitCode >>

\* The timer of the pause fires: the loop's i += BATCH_SIZE.
pause_elapsed ==
  /\ pc = "pause"
  /\ i' = i + BATCH_SIZE
  /\ pc' = "sendLoop"
  /\ UNCHANGED << result, DRY_RUN, page, emails, requests, responses, total, sent, failed,
                  batches, outcomes, sendCalls, inflight, timers, stdout, stderr,
                  exitCode >>

\* The loop ends: return { sent, failed }, main prints the summary and ends.
sendBatches_return ==
  /\ pc = "sendLoop"
  /\ ~(i < total)
  /\ result' = << [sent |-> sent, failed |-> failed] >>
  /\ stdout' = stdout \o << Line("=== DONE ===", 0, 0),
                            Line("Sent:", sent, 0),
                            Line("Failed:", failed, 0) >>
  /\ exitCode' = "0"
  /\ pc' = "exited"
  /\ UNCHANGED << DRY_RUN, page, emails, requests, responses, total, i, sent, failed,
                  batches, outcomes, sendCalls, inflight, timers, stderr >>

\* ---------------------------------------------------------------- Next
Next ==
  \/ main_begin
  \/ listUsers_call
  \/ listUsers_error
  \/ listUsers_fault
  \/ \E present \in BOOLEAN :
       \E users \in (IF present THEN UserPages ELSE {<< >>}) :
         listUsers_ok(present, users)
  \/ main_fetched
  \/ sendBatches_dryRun
  \/ sendBatches_send
  \/ send_accepted
  \/ send_error
  \/ send_fault
  \/ pause_elapsed
  \/ sendBatches_return

Spec == Init /\ [][Next]_vars


\* ---------------------------------------------------------------- properties
\* sendBatches has returned.
returned == result # << >>

RECURSIVE Concat(_)
Concat(ss) == IF ss = << >> THEN << >> ELSE Head(ss) \o Concat(Tail(ss))

\* C1: in dry-run mode no call to resend.batch.send is ever made or
\* outstanding, failed stays 0, and the counts sendBatches returns are
\* sent = the number of recipients, failed = 0.
C1_DryRunSendsNothing ==
  DRY_RUN =>
    /\ sendCalls = << >>
    /\ inflight = 0
    /\ failed = 0
    /\ returned => /\ result[1].failed = 0
                   /\ result[1].sent = Len(emails)

\* A dry run over more than one batch has returned.
C1_Witness ==
  /\ DRY_RUN
  /\ returned
  /\ Len(emails) > BATCH_SIZE
  /\ result[1].sent = Len(emails)

\* C2: when sendBatches has returned, whatever the batches' outcomes, every
\* batch has exactly one outcome and sent + failed is the number of recipients.
C2_SentPlusFailedIsTotal ==
  returned =>
    /\ Len(outcomes) = Len(batches)
    /\ result[1].sent + result[1].failed = Len(emails)

\* A live run has returned with accepted, errored and faulted batches.
C2_Witness ==
  /\ returned
  /\ \E a, b, c \in 1..Len(outcomes) :
       outcomes[a] = "accepted" /\ outcomes[b] = "error" /\ outcomes[c] = "fault"
  /\ result[1].sent > 0
  /\ result[1].failed > result[1].sent

\* C3: the batches formed so far are the consecutive chunks of the list, in
\* order; when sendBatches has returned there are ceil(L/B) of them, each of
\* at most B addresses, all but the last of exactly B, and together they are
\* the list.
C3_BatchesPartitionTheList ==
  /\ \A k \in 1..Len(batches) :
       /\ Len(batches[k]) >= 1
       /\ Len(batches[k]) <= BATCH_SIZE
       /\ \A j \in 1..Len(batches[k]) :
            batches[k][j] = emails[(k - 1) * BATCH_SIZE + j]
  /\ returned =>
       /\ Len(batches) = Ceil(Len(emails), BATCH_SIZE)
       /\ \A k \in 1..(Len(batches) - 1) : Len(batches[k]) = BATCH_SIZE
       /\ Concat(batches) = emails

\* A run has returned whose last batch is smaller than the others.
C3_Witness ==
  /\ returned
  /\ Len(batches) >= 3
  /\ Len(batches[Len(batches)]) < BATCH_SIZE
  /\ \E j, k \in 1..Len(emails) : emails[j] # emails[k]


\* The addresses of the batches so far whose outcome is in S.
RECURSIVE CountedUpTo(_, _)
CountedUpTo(n, S) ==
  IF n = 0 THEN 0
  ELSE CountedUpTo(n - 1, S) + (IF outcomes[n] \in S THEN Len(batches[n]) ELSE 0)

Counted(S) == CountedUpTo(Len(outcomes), S)

\* A send call resolves as a failure in this step.
FailStep ==
  /\ pc = "awaitSend"
  /\ Len(outcomes') = Len(outcomes) + 1
  /\ outcomes'[Len(outcomes')] \in {"error", "fault"}

\* C4: in live mode a send call that fails, by a reported error or by a
\* thrown fault, adds the size of its batch to failed and leaves sent as it
\* is, and the run goes on (to the pause or to the next iteration); at any
\* time sent is the size of the accepted batches and failed the size of the
\* errored and faulted ones, and a run that returns has handled every batch.
C4_FailureCountsItsBatchOnly ==
  /\ [](~DRY_RUN => /\ sent = Counted({"accepted"})
                    /\ failed = Counted({"error", "fault"})
                    /\ returned => Len(outcomes) = Ceil(Len(emails), BATCH_SIZE))
  /\ [][FailStep =>
          /\ failed' = failed + Len(batches[Len(batches)])
          /\ sent' = sent
          /\ exitCode' = "running"
          /\ pc' = IF Len(batches) < Ceil(Len(emails), BATCH_SIZE)
                     THEN "pause" ELSE "sendLoop"]_vars

\* A live run has returned in which the first batch faulted, the second
\* was accepted and the third reported an error.
C4_Witness ==
  /\ returned
  /\ Len(outcomes) = 3
  /\ outcomes[1] = "fault" /\ outcomes[2] = "accepted" /\ outcomes[3] = "error"
  /\ result[1].sent = Len(batches[2])
  /\ result[1].failed = Len(batches[1]) + Len(batches[3])

\* The last answer of the directory is a reported error.
FetchError == responses # << >> /\ responses[Len(responses)].kind = "error"

HasLine(out, text) == \E k \in 1..Len(out) : out[k].text = text

\* C5: when the listing call reports an error on page p the run has ended
\* with exit status 1 and a fatal error naming p; pages 1..p were requested
\* once each and none after, no batch was formed, no send call made, no
\* email list returned to main and no summary printed.
C5_FetchErrorAborts ==
  FetchError =>
    /\ pc = "exited"
    /\ exitCode = "1"
    /\ stderr = << Line("Fatal error: Supabase auth fetch failed at page", Len(responses), 0) >>
    /\ requests = [k \in 1..Len(responses) |-> k]
    /\ batches = << >>
    /\ sendCalls = << >>
    /\ inflight = 0
    /\ timers = << >>
    /\ result = << >>
    /\ sent = 0 /\ failed = 0
    /\ ~HasLine(stdout, "Found emails")
    /\ ~HasLine(stdout, "=== DONE ===")
    /\ ~HasLine(stdout, "Sent:")
    /\ ~HasLine(stdout, "Failed:")

\* The directory reported an error on page 3, after two pages with emails.
C5_Witness ==
  /\ FetchError
  /\ Len(responses) = 3
  /\ Len(emails) >= 2
  /\ exitCode = "1"

\* C6 as claimed: a run over n batches has paused n - 1 times when
\* sendBatches returns, however the batches were handled.
C6_PausesInEveryMode ==
  returned => Len(timers) = Len(batches) - 1

\* C6, amended: in live mode a pause of DELAY_BETWEEN_BATCHES_MS follows each
\* batch except the last, accepted or failed, so that a run over n batches has
\* paused n - 1 times when it returns; in dry-run mode there is no pause.
C6_PausesInLiveModeOnly ==
  /\ \A k \in 1..Len(timers) : timers[k] = DELAY_BETWEEN_BATCHES_MS
  /\ DRY_RUN => timers = << >>
  /\ ~DRY_RUN =>
       /\ emails = << >> => timers = << >>
       /\ emails # << >> =>
            Len(timers) = Min(Len(outcomes), Ceil(Len(emails), BATCH_SIZE) - 1)
       /\ returned => Len(timers) = Len(batches) - 1

\* A live run over three batches, one of them failed, has returned after two
\* pauses.
C6_Witness ==
  /\ ~DRY_RUN
  /\ returned
  /\ Len(batches) = 3
  /\ \E k \in 1..2 : outcomes[k] \in {"error", "fault"}
  /\ Len(timers) = 2


\* fetchAllEmails is still running.
Fetching == pc \in {"main", "fetchLoop", "awaitListUsers"}

FullPage(r) == r.kind = "ok" /\ Len(r.users) = perPage

\* C7: the pages requested are 1, 2, 3, ... in this order, each after the
\* answer to the one before; a page was followed by a request for the next
\* only if it came back full (judged by its user records), a full page is
\* followed by the request for the next, and once fetchAllEmails has returned
\* the last page is one with fewer records than perPage.
C7_PagesUntilFirstShortOne ==
  /\ requests = [k \in 1..Len(requests) |-> k]
  /\ Len(requests) = Len(responses) + (IF pc = "awaitListUsers" THEN 1 ELSE 0)
  /\ \A k \in 1..Len(responses) :
       /\ k < Len(requests) => FullPage(responses[k])
       /\ FullPage(responses[k]) => k < Len(requests) \/ pc = "fetchLoop"
  /\ pc = "fetchLoop" => page = Len(requests) + 1
  /\ ~Fetching /\ ~(pc = "exited" /\ exitCode = "1") =>
       /\ responses # << >>
       /\ responses[Len(responses)].kind = "ok"
       /\ Len(responses[Len(responses)].users) < perPage

\* fetchAllEmails has returned after three pages: two full ones, of which one
\* holds no email at all, and a short one.
C7_Witness ==
  /\ pc = "fetched"
  /\ requests = << 1, 2, 3 >>
  /\ Len(responses) = 3
  /\ \E k \in 1..2 : \A j \in 1..perPage : responses[k].users[j] \notin Addresses
  /\ Len(responses[3].users) < perPage

\* The user records of the pages received, in page order.
RECURSIVE AllUsers(_)
AllUsers(rs) == IF rs = << >> THEN << >> ELSE Head(rs).users \o AllUsers(Tail(rs))

IsAddress(e) == e \in Addresses

\* C8: the list fetchAllEmails builds, and returns, is made of the email
\* fields that are addresses among the user records received, in page order
\* and in the order within a page, duplicates included.
C8_EmailsAreTheFetchedAddresses ==
  emails = SelectSeq(AllUsers(responses), IsAddress)

\* fetchAllEmails has returned a list with an address twice, from pages that
\* also held a record without email and one with an empty email.
C8_Witness ==
  /\ pc = "fetched"
  /\ Len(responses) >= 2
  /\ \E j, k \in 1..Len(emails) : j # k /\ emails[j] = emails[k]
  /\ \E j, k \in 1..Len(emails) : j < k /\ emails[j] = "b@x" /\ emails[k] = "a@x"
  /\ \E k \in 1..Len(AllUsers(responses)) : AllUsers(responses)[k] = NoEmail
  /\ \E k \in 1..Len(AllUsers(responses)) : AllUsers(responses)[k] = ""

\* The last answer of the directory is an error or a fault.
FetchFailed ==
  responses # << >> /\ responses[Len(responses)].kind \in {"error", "fault"}

Summary(s, f) == << Line("=== DONE ===", 0, 0), Line("Sent:", s, 0), Line("Failed:", f, 0) >>

\* The last n lines of out.
LastLines(out, n) == SubSeq(out, Len(out) - n + 1, Len(out))

\* C9 as claimed: a run that exits with status zero, whatever the length of
\* the list fetched, has printed the summary of the sent and failed counts.
C9_ExitZeroAfterSummary ==
  exitCode = "0" => HasLine(stdout, "Sent:") /\ HasLine(stdout, "Failed:")

\* C9, amended: a run stops only by exiting; it exits non-zero exactly when
\* the fetch failed (a reported error or a fault), and zero otherwise: over a
\* non-empty list with the summary of the counts sendBatches returned as its
\* last output, over an empty list after "No emails found." and with no
\* summary.
C9_ExitStatus ==
  /\ pc # "exited" => exitCode = "running" /\ ENABLED Next
  /\ pc = "exited" =>
       /\ exitCode \in {"0", "1"}
       /\ exitCode = "1" <=> FetchFailed
       /\ exitCode = "0" /\ emails # << >> =>
            /\ returned
            /\ Len(stdout) >= 3
            /\ LastLines(stdout, 3) = Summary(result[1].sent, result[1].failed)
       /\ exitCode = "0" /\ emails = << >> =>
            /\ stdout[Len(stdout)] = Line("No emails found.", 0, 0)
            /\ ~returned
            /\ ~HasLine(stdout, "=== DONE ===")
            /\ ~HasLine(stdout, "Sent:")
            /\ ~HasLine(stdout, "Failed:")

\* A live run with accepted and failed batches has exited zero after the
\* summary.
C9_Witness ==
  /\ exitCode = "0"
  /\ returned
  /\ result[1].failed > 0
  /\ result[1].sent > 0
  /\ LastLines(stdout, 3) = Summary(result[1].sent, result[1].failed)

\* The other exit with status zero: a run over more than a page of users, none
\* with an email.
C9_WitnessEmpty ==
  /\ exitCode = "0"
  /\ emails = << >>
  /\ Len(AllUsers(responses)) > perPage

\* C10: in live mode the k-th send call carries the messages of the k-th
\* chunk of the list, so that each batch is sent once and in order; a call is
\* made only when every earlier one has resolved; no send call is made
\* before the last page request has returned; a run that returns has sent
\* every batch.
C10_OneSendPerBatchInOrder ==
  /\ inflight \in {0, 1}
  /\ inflight = 1 <=> pc = "awaitSend"
  /\ sendCalls # << >> => ~Fetching /\ Len(requests) = Len(responses)
  /\ ~DRY_RUN =>
       /\ Len(sendCalls) = Len(outcomes) + inflight
       /\ Len(sendCalls) = Len(batches)
       /\ \A k \in 1..Len(sendCalls) :
            sendCalls[k] =
              [j \in 1..Len(sendCalls[k]) |->
                 buildEmail(emails[(k - 1) * BATCH_SIZE + j])]
       /\ \A k \in 1..Len(sendCalls) :
            Len(sendCalls[k]) = Min(BATCH_SIZE, Len(emails) - (k - 1) * BATCH_SIZE)
       /\ returned => Len(sendCalls) = Ceil(Len(emails), BATCH_SIZE)

\* The third send call of a live run is outstanding, after a failed one.
C10_Witness ==
  /\ ~DRY_RUN
  /\ pc = "awaitSend"
  /\ Len(sendCalls) = 3
  /\ inflight = 1
  /\ outcomes[1] = "error"
  /\ Len(requests) = 3

====
